---- MODULE Spec2Model ----
(***************************************************************************)
(* Model of the BookScraper crawl pipeline.                                *)
(*                                                                         *)
(*   - scrape_all_books and main (src/BookScraper/main.py): one action per *)
(*     collector.get call or loop decision, the program counter named by   *)
(*     the source line it stands at;                                       *)
(*   - BookParser (src/BookScraper/scraper/parser.py): operators over      *)
(*     abstract documents;                                                 *)
(*   - Book, Category (src/BookScraper/models/data_models.py): records;    *)
(*   - WebCollector (src/BookScraper/scraper/collector.py): get and        *)
(*     _respect_rate_limit statement by statement, for several callers of  *)
(*     one instance, on a discrete clock.                                  *)
(*                                                                         *)
(* The web site is an input: the answer to each request is chosen when the *)
(* request is made (failure, empty body, or a document), and a listing     *)
(* page that was served once is served with the same content afterwards.   *)
(*                                                                         *)
(* Specifications:                                                         *)
(*   Spec          one run of main, its requests recorded (at most         *)
(*                 MaxRequests of them);                                   *)
(*   FairSpec      the same run, unrecorded and unbounded in requests,     *)
(*                 every step eventually taken;                            *)
(*   NavSpec       the run without cap on a site whose next links may lead *)
(*                 into a subdirectory or be absolute URLs;                *)
(*   CollSpec      callers of WebCollector.get, any interleaving;          *)
(*   CollFairSpec  the same, every thread eventually taking its step;      *)
(*   SeqSpec       a single caller of WebCollector.get;                    *)
(*   ParseSpec     one parser function applied to one input.               *)
(***************************************************************************)
EXTENDS Integers, Sequences, FiniteSets, TLC

\* ------------------------------------------------------------------ bounds
MaxCat == 2
MaxPage == 2
MaxPerPage == 2
MaxCap == 2
MaxRequests == 5
MaxBooks == 3
NWorkers == 2
MaxCalls == 2
MaxTime == 5
MaxURL == 2
MaxHref == 5
MaxClasses == 3
MaxText == 4
MaxRows == 2

\* collector.py 16: rate_limit, in clock ticks (one tick is half the default interval)
RateLimit == 2
\* time.time() at construction: far later than the initial last_request_time of 0
StartTime == 2

Workers == 1..NWorkers

\* ------------------------------------------------------- values and results
\* Optional[int] = None for max_books_per_category
NoCap == -1

\* The href of a link to a listing page: a relative path that names file p,
\* d directories below the directory of the page it stands on ("page-2.html",
\* "more/page-2.html"), or an absolute URL (starting with "http") of file p
\* in the directory at depth d of category c. NoLink stands for None.
NoLink == [form |-> "none", c |-> 0, d |-> 0, p |-> 0]
RelLink(d, p) == [form |-> "rel", c |-> 0, d |-> d, p |-> p]
AbsLink(c, d, p) == [form |-> "abs", c |-> c, d |-> d, p |-> p]

\* Optional[str] results of WebCollector.get: None, "" and a non-empty text.
\* A document is what the parser's selectors find in it: the sidebar links
\* (ncat), the listing items (n) and the next link of the page at file p of
\* directory depth d of category c, the description paragraph (desc) and
\* the rows of the product table of a detail page (rows).
NoDoc == [c |-> 0, d |-> 0, p |-> 0, n |-> 0, next |-> NoLink, ncat |-> 0,
          desc |-> FALSE, rows |-> <<>>]
None == [res |-> "None", doc |-> NoDoc]
EmptyBody == [res |-> "Empty", doc |-> NoDoc]
Body(d) == [res |-> "Body", doc |-> d]

\* Python truth of an Optional[str]: None and "" are false
Truthy(r) == r.res = "Body"

\* URLs
\* URLs: the listing page in file p of the directory at depth d below the
\* directory of category c, and the detail page of the i-th book listed there
HomeURL == [kind |-> "home", c |-> 0, d |-> 0, p |-> 0, i |-> 0]
ListURLAt(c, d, p) == [kind |-> "list", c |-> c, d |-> d, p |-> p, i |-> 0]
ListURL(c, p) == ListURLAt(c, 0, p)
BookURLAt(c, d, p, i) == [kind |-> "book", c |-> c, d |-> d, p |-> p, i |-> i]
BookURL(c, p, i) == BookURLAt(c, 0, p, i)
NoURL == [kind |-> "none", c |-> 0, d |-> 0, p |-> 0, i |-> 0]

\* Documents the site can serve
HomeDocs == {[NoDoc EXCEPT !.ncat = k] : k \in 0..MaxCat}
\* The next links a listing page at u can carry: none or a file of its own
\* directory; on a site with deep links also, from the category's directory,
\* a file one directory down, and from there an absolute URL of a listing
\* page back in the category's directory
NextLinks(u, deepLinks) ==
    {NoLink} \cup {RelLink(0, p) : p \in 1..MaxPage}
    \cup (IF deepLinks /\ u.d = 0
          THEN {RelLink(1, p) : p \in 1..MaxPage} ELSE {})
    \cup (IF deepLinks /\ u.d = 1
          THEN {AbsLink(u.c, 0, p) : p \in 1..MaxPage} ELSE {})

ListDocsOf(u, deepLinks) ==
    {[NoDoc EXCEPT !.c = u.c, !.d = u.d, !.p = u.p, !.n = k, !.next = nx] :
        k \in 0..MaxPerPage, nx \in NextLinks(u, deepLinks)}

\* A row of the product table: header text and data text
Row(th, td) == [th |-> th, td |-> td]

\* A detail page has a description; only the first book of a listing page has a UPC row
DetailDocs(u) ==
    {[NoDoc EXCEPT !.c = u.c, !.d = u.d, !.p = u.p, !.desc = TRUE,
                   !.rows = IF u.i = 1 THEN <<Row("UPC", <<"upc", u>>)>> ELSE <<>>]}

\* ------------------------------------------------------------ data_models
Unset == <<>>

Book(title, price, rating, availability, category, url, image_url) ==
    [title |-> title, price |-> price, rating |-> rating,
     availability |-> availability, category |-> category, url |-> url,
     upc |-> Unset, description |-> Unset, image_url |-> image_url]

Category(name, url) == [name |-> name, url |-> url, books |-> <<>>]

\* Mutant of add_book: the book is put in front of the list
add_book_Prepend(category, book) == [category EXCEPT !.books = <<book>> \o @]

add_book(category, book) == [category EXCEPT !.books = Append(@, book)]

\* ----------------------------------------------------------------- parser
\* Mutant of parse_categories: the links are taken last to first
parse_categories_Reversed(doc) ==
    [k \in 1..doc.ncat |->
        Category(doc.ncat + 1 - k, ListURL(doc.ncat + 1 - k, 1))]

\* parser.py 43-60: one Category per sidebar link with an href, in document
\* order; the k-th such link is named k and points to the k-th category's page
parse_categories(doc) == [k \in 1..doc.ncat |-> Category(k, ListURL(k, 1))]

parse_books_list(doc, category) ==
    [k \in 1..doc.n |->
        Book(<<doc.c, doc.d, doc.p, k>>, k, k % 6, "In stock", category,
             BookURLAt(doc.c, doc.d, doc.p, k), <<"img", doc.c, doc.d, doc.p, k>>)]

\* str.strip() of a header text: surrounding whitespace goes
Strip(s) == IF s = " UPC " THEN "UPC" ELSE s

\* parser.py 196-203: every row whose stripped header is 'UPC' and that has
\* a data cell assigns book.upc; the last such row wins
RECURSIVE UpcAfter(_, _)
UpcAfter(rows, upc) ==
    IF rows = <<>> THEN upc
    ELSE UpcAfter(Tail(rows),
                  IF Strip(Head(rows).th) = "UPC" /\ Head(rows).td # Unset
                  THEN Head(rows).td ELSE upc)

\* Mutant of parse_book_details: upc is assigned whether or not a row was found
parse_book_details_Reset(doc, book) ==
    [book EXCEPT !.description = IF doc.desc THEN <<"desc", book.url>> ELSE @,
                 !.upc = UpcAfter(doc.rows, Unset)]

\* parser.py 177-205: description and upc are assigned when found; the same
\* book is returned
parse_book_details(doc, book) ==
    [book EXCEPT !.description = IF doc.desc THEN <<"desc", book.url>> ELSE @,
                 !.upc = UpcAfter(doc.rows, @)]

\* parser.py 207-225: the href of li.next > a; NoLink stands for None (no
\* such element, or an empty href)
check_next_page(doc) == doc.next

\* main.py 84-87: an href starting with http is taken as it is; any other is
\* appended to current_url without its last segment
ResolveNext(current, next_page) ==
    IF next_page.form = "abs"
    THEN ListURLAt(next_page.c, next_page.d, next_page.p)
    ELSE ListURLAt(current.c, current.d + next_page.d, next_page.p)

\* ------------------------------------------- parser, one listing item
\* Texts are sequences of symbols. select_one found nothing, or the
\* attribute is not there:
NoElement == <<"no element">>

\* All texts of at most n symbols over an alphabet
RECURSIVE Texts(_, _)
Texts(alphabet, n) ==
    IF n = 0 THEN {<<>>}
    ELSE LET shorter == Texts(alphabet, n - 1)
         IN shorter \cup {Append(t, a) : t \in shorter, a \in alphabet}

\* str.lstrip(chars): leading symbols that are in chars are dropped, one by
\* one, whatever their order
RECURSIVE lstrip(_, _)
lstrip(s, chars) ==
    IF s # <<>> /\ Head(s) \in chars THEN lstrip(Tail(s), chars) ELSE s

\* self.base_url, and the prefix the book URLs are given
base_url == <<"http:", "/", "/", "host">>
CataloguePrefix == base_url \o <<"/", "catalogue", "/">>

\* parser.py 149-150: url_path is the href of h3 > a, '' when there is no
\* such element or attribute; url is the prefix and url_path.lstrip('../../..')
\* when url_path is not empty, and '' otherwise
book_url(href) ==
    LET url_path == IF href = NoElement THEN <<>> ELSE href
    IN IF url_path # <<>>
       THEN CataloguePrefix \o lstrip(url_path, {".", "/"})
       ELSE <<>>

\* parser.py 77-83
rating_map ==
    ("One" :> 1) @@ ("Two" :> 2) @@ ("Three" :> 3) @@ ("Four" :> 4) @@ ("Five" :> 5)

\* parser.py 85-89: the first class name that is a key of rating_map
RECURSIVE FirstRated(_, _)
FirstRated(class, map) ==
    IF class = <<>> THEN 0
    ELSE IF Head(class) \in DOMAIN map THEN map[Head(class)]
    ELSE FirstRated(Tail(class), map)

\* The class names of a sequence
Names(class) == {class[k] : k \in DOMAIN class}

\* Mutant of _extract_rating: class names are compared without regard to case
_extract_rating_AnyCase(class) ==
    IF class = NoElement \/ "star-rating" \notin Names(class) THEN 0
    ELSE FirstRated(class, rating_map @@ ("one" :> 1))

\* parser.py 62-89: class is the class attribute of the item's first p, or
\* NoElement; select_one('p.star-rating') finds it when star-rating is among
\* its names
_extract_rating(class) ==
    IF class = NoElement \/ "star-rating" \notin Names(class) THEN 0
    ELSE FirstRated(class, rating_map)

\* \d
Digits == {"1", "5"}
DigitValue == ("1" :> 1) @@ ("5" :> 5)

\* The index of the last symbol of the run of digits that starts at i;
\* i - 1 when text[i] is not a digit
RECURSIVE RunEnd(_, _)
RunEnd(text, i) ==
    IF i <= Len(text) /\ text[i] \in Digits THEN RunEnd(text, i + 1) ELSE i - 1

\* int and float of digit strings: a price is <<numerator, denominator>>
RECURSIVE IntOf(_)
IntOf(ds) ==
    IF ds = <<>> THEN 0
    ELSE 10 * IntOf(SubSeq(ds, 1, Len(ds) - 1)) + DigitValue[ds[Len(ds)]]

RECURSIVE Pow10(_)
Pow10(n) == IF n = 0 THEN 1 ELSE 10 * Pow10(n - 1)

float(whole, frac) == <<IntOf(whole) * Pow10(Len(frac)) + IntOf(frac), Pow10(Len(frac))>>

Zero == <<0, 1>>
NoMatch == <<-1, 1>>

\* The pattern applied at position i: a pound sign, digits as many as
\* there are, a point, digits as many as there are; group(1) as a float
MatchAt(text, i) ==
    LET j == RunEnd(text, i + 1)
        k == RunEnd(text, j + 2)
    IN IF /\ text[i] = "£" /\ j >= i + 1
          /\ j + 1 <= Len(text) /\ text[j + 1] = "." /\ k >= j + 2
       THEN float(SubSeq(text, i + 1, j), SubSeq(text, j + 2, k))
       ELSE NoMatch

\* re.search: the match at the leftmost position that has one
RECURSIVE re_search(_, _)
re_search(text, i) ==
    IF i > Len(text) THEN NoMatch
    ELSE IF MatchAt(text, i) # NoMatch THEN MatchAt(text, i)
    ELSE re_search(text, i + 1)

\* Mutant of _extract_price: re.match in place of re.search
_extract_price_Anchored(text) ==
    IF text = NoElement \/ text = <<>> THEN Zero
    ELSE IF MatchAt(text, 1) # NoMatch THEN MatchAt(text, 1) ELSE Zero

\* parser.py 91-111: text is the text of p.price_color, or NoElement
_extract_price(text) ==
    IF text = NoElement THEN Zero
    ELSE IF re_search(text, 1) # NoMatch THEN re_search(text, 1) ELSE Zero

\* -------------------------------------------------------------------- state
\* scrape_all_books and main
VARIABLES pc, cap, site, categories, catIdx, html_content, current_url,
          book_count, books, bookIdx, sessionOpen, result, saved,
          requests, discovered, recording, deep

\* WebCollector with its callers, on a clock
VARIABLES now, last_request_time, wpc, current_time, wake, fate, ret,
          ncalls, dispatches, req_url, completions, callers

\* One call of a parser function: which one, its argument, its result
VARIABLES ptask, pin, pout, pdone

crawlVars == <<pc, cap, site, categories, catIdx, html_content, current_url,
               book_count, books, bookIdx, sessionOpen, result, saved,
               requests, discovered, recording, deep>>

collVars == <<now, last_request_time, wpc, current_time, wake, fate, ret,
              ncalls, dispatches, req_url, completions, callers>>

parseVars == <<ptask, pin, pout, pdone>>

vars == <<crawlVars, collVars, parseVars>>

Caps == {NoCap} \cup 0..MaxCap

CrawlInit ==
    /\ pc = "L39"
    /\ site = <<>>
    /\ categories = <<>>
    /\ catIdx = 0
    /\ html_content = None
    /\ current_url = NoURL
    /\ book_count = 0
    /\ books = <<>>
    /\ bookIdx = 0
    /\ sessionOpen = TRUE
    /\ result = <<>>
    /\ saved = FALSE
    /\ requests = <<>>
    /\ discovered = [c \in 1..MaxCat |-> <<>>]

\* collector.py 24-27: WebCollector.__init__; nobody has called get yet
CollFields ==
    /\ now = StartTime
    /\ last_request_time = 0
    /\ wpc = [w \in Workers |-> "idle"]
    /\ current_time = [w \in Workers |-> 0]
    /\ wake = [w \in Workers |-> 0]
    /\ fate = [w \in Workers |-> "none"]
    /\ ret = [w \in Workers |-> "none"]
    /\ ncalls = [w \in Workers |-> 0]
    /\ dispatches = <<>>
    /\ req_url = [w \in Workers |-> 0]
    /\ completions = <<>>

\* Every worker may call get on the instance
CollInit == CollFields /\ callers = Workers

\* No parser function is called on its own
ParseIdle == ptask = "none" /\ pin = <<>> /\ pout = <<>> /\ pdone = FALSE

\* A run with any cap, its requests recorded
Init ==
    /\ CrawlInit /\ CollInit /\ ParseIdle
    /\ cap \in Caps /\ recording = TRUE /\ deep = FALSE

\* The same run with no record kept of its requests, and no bound on their number
FairInit ==
    /\ CrawlInit /\ CollInit /\ ParseIdle
    /\ cap \in Caps /\ recording = FALSE /\ deep = FALSE

\* A run without cap on a site whose next links may lead into subdirectories
\* or be absolute URLs
NavInit ==
    /\ CrawlInit /\ CollInit /\ ParseIdle
    /\ cap = NoCap /\ recording = TRUE /\ deep = TRUE

\* The books appended so far, over all categories
RECURSIVE TotalBooks(_)
TotalBooks(cs) == IF cs = <<>> THEN 0 ELSE Len(Head(cs).books) + TotalBooks(Tail(cs))

\* Mutant of UnderCap: the comparison is off by one
UnderCap_OffByOne == cap = NoCap \/ book_count <= cap

\* max_books_per_category is None or book_count < max_books_per_category
UnderCap == cap = NoCap \/ book_count < cap

\* collector.get(url) joins the record of requests with its outcome and
\* with what the caller's test of the result made of it (main.py 40, 52,
\* 60, 74: "if not html" and "if book_html" take None and '' alike)
Logged(u, r) ==
    IF recording
    THEN Append(requests, [url |-> u, res |-> r.res, failed |-> ~Truthy(r)])
    ELSE requests

\* A recorded run makes at most MaxRequests requests
CanRequest == recording => Len(requests) < MaxRequests

\* What the site may answer to a request for listing page u
ListingAnswers(u) ==
    {None, EmptyBody} \cup
    {Body(d) : d \in IF u \in DOMAIN site THEN {site[u]} ELSE ListDocsOf(u, deep)}

Served(u, r) == IF Truthy(r) /\ u \notin DOMAIN site THEN site @@ (u :> r.doc) ELSE site

\* ------------------------------------------------------- scrape_all_books
\* main.py 39-46: homepage_html = collector.get("/"); return [] when falsy
GetHomepage ==
    /\ pc = "L39"
    /\ CanRequest
    /\ \E r \in {None, EmptyBody} \cup {Body(d) : d \in HomeDocs} :
        /\ requests' = Logged(HomeURL, r)
        /\ site' = Served(HomeURL, r)
        /\ IF ~Truthy(r)
           THEN /\ result' = <<>>
                /\ pc' = "returned"
                /\ UNCHANGED <<categories, catIdx>>
           ELSE /\ categories' = parse_categories(r.doc)
                /\ catIdx' = 1
                /\ pc' = "L49"
                /\ UNCHANGED result
    /\ UNCHANGED <<cap, html_content, current_url, book_count, books,
                   bookIdx, sessionOpen, saved, discovered>>
    /\ UNCHANGED <<recording, deep, collVars, parseVars>>

\* Mutant of GetCategoryPage: a failed listing fetch leaves the loop over the categories
GetCategoryPage_Abort ==
    /\ pc = "L49"
    /\ catIdx <= Len(categories)
    /\ CanRequest
    /\ \E r \in ListingAnswers(categories[catIdx].url) :
        /\ requests' = Logged(categories[catIdx].url, r)
        /\ site' = Served(categories[catIdx].url, r)
        /\ IF ~Truthy(r)
           THEN /\ catIdx' = Len(categories) + 1
                /\ pc' = "L49"
                /\ UNCHANGED <<html_content, current_url, book_count>>
           ELSE /\ html_content' = r
                /\ current_url' = categories[catIdx].url
                /\ book_count' = 0
                /\ pc' = "L60"
                /\ UNCHANGED catIdx
    /\ UNCHANGED <<cap, categories, books, bookIdx, sessionOpen, result, saved,
                   discovered>>
    /\ UNCHANGED <<recording, deep, collVars, parseVars>>

\* main.py 49-58: html_content = collector.get(category.url); continue when falsy
GetCategoryPage ==
    /\ pc = "L49"
    /\ catIdx <= Len(categories)
    /\ CanRequest
    /\ \E r \in ListingAnswers(categories[catIdx].url) :
        /\ requests' = Logged(categories[catIdx].url, r)
        /\ site' = Served(categories[catIdx].url, r)
        /\ IF ~Truthy(r)
           THEN /\ catIdx' = catIdx + 1
                /\ pc' = "L49"
                /\ UNCHANGED <<html_content, current_url, book_count>>
           ELSE /\ html_content' = r
                /\ current_url' = categories[catIdx].url
                /\ book_count' = 0
                /\ pc' = "L60"
                /\ UNCHANGED catIdx
    /\ UNCHANGED <<cap, categories, books, bookIdx, sessionOpen, result, saved,
                   discovered>>
    /\ UNCHANGED <<recording, deep, collVars, parseVars>>

\* main.py 49: the for loop over categories is exhausted
CategoriesDone ==
    /\ pc = "L49"
    /\ catIdx > Len(categories)
    /\ pc' = "L96"
    /\ UNCHANGED <<cap, site, categories, catIdx, html_content, current_url,
                   book_count, books, bookIdx, sessionOpen, result, saved,
                   requests, discovered>>
    /\ UNCHANGED <<recording, deep, collVars, parseVars>>

\* main.py 60-63: the while test holds; books = parser.parse_books_list(...)
WhileEnter ==
    /\ pc = "L60"
    /\ Truthy(html_content) /\ UnderCap
    /\ books' = parse_books_list(html_content.doc, categories[catIdx].name)
    /\ discovered' = [discovered EXCEPT ![catIdx] = @ \o books']
    /\ bookIdx' = 1
    /\ pc' = "L66"
    /\ UNCHANGED <<cap, site, categories, catIdx, html_content, current_url,
                   book_count, sessionOpen, result, saved, requests>>
    /\ UNCHANGED <<recording, deep, collVars, parseVars>>

\* main.py 60, 94: the while test fails; on to the next category
WhileExit ==
    /\ pc = "L60"
    /\ ~(Truthy(html_content) /\ UnderCap)
    /\ catIdx' = catIdx + 1
    /\ pc' = "L49"
    /\ UNCHANGED <<cap, site, categories, html_content, current_url,
                   book_count, books, bookIdx, sessionOpen, result, saved,
                   requests, discovered>>
    /\ UNCHANGED <<recording, deep, collVars, parseVars>>

\* Mutant of AddDetailed: add_book sits inside "if book_html"
AddDetailed_SkipFailed(category, r, book) ==
    IF Truthy(r) THEN add_book(category, parse_book_details(r.doc, book)) ELSE category

\* main.py 73-77: enrich the book when the detail page came, then add it
AddDetailed(category, r, book) ==
    add_book(category, IF Truthy(r) THEN parse_book_details(r.doc, book) ELSE book)

\* main.py 66-78: one iteration of the loop over the page's books
GetBookDetail ==
    /\ pc = "L66"
    /\ bookIdx <= Len(books)
    /\ UnderCap
    /\ TotalBooks(categories) < MaxBooks
    /\ CanRequest
    /\ \E r \in {None, EmptyBody} \cup {Body(d) : d \in DetailDocs(books[bookIdx].url)} :
        /\ requests' = Logged(books[bookIdx].url, r)
        /\ categories' = [categories EXCEPT ![catIdx] = AddDetailed(@, r, books[bookIdx])]
    /\ book_count' = book_count + 1
    /\ bookIdx' = bookIdx + 1
    /\ UNCHANGED <<pc, cap, site, catIdx, html_content, current_url, books,
                   sessionOpen, result, saved, discovered>>
    /\ UNCHANGED <<recording, deep, collVars, parseVars>>

\* Mutant of BooksDone: the next-page check does not wait for the loop over
\* the page's books
BooksDone_Early ==
    /\ pc = "L66"
    /\ pc' = "L81"
    /\ UNCHANGED <<cap, site, categories, catIdx, html_content, current_url,
                   book_count, books, bookIdx, sessionOpen, result, saved,
                   requests, discovered>>
    /\ UNCHANGED <<recording, deep, collVars, parseVars>>

\* main.py 66-69: the loop over the page's books ends, exhausted or by break
BooksDone ==
    /\ pc = "L66"
    /\ bookIdx > Len(books) \/ ~UnderCap
    /\ pc' = "L81"
    /\ UNCHANGED <<cap, site, categories, catIdx, html_content, current_url,
                   book_count, books, bookIdx, sessionOpen, result, saved,
                   requests, discovered>>
    /\ UNCHANGED <<recording, deep, collVars, parseVars>>

\* Mutant of GetNextPage: a failed fetch of a further page empties the
\* category's list
GetNextPage_DropOnFailure ==
    /\ pc = "L81"
    /\ check_next_page(html_content.doc) # NoLink /\ UnderCap
    /\ CanRequest
    /\ LET next_page == ResolveNext(current_url, check_next_page(html_content.doc))
       IN \E r \in ListingAnswers(next_page) :
            /\ requests' = Logged(next_page, r)
            /\ site' = Served(next_page, r)
            /\ current_url' = next_page
            /\ html_content' = r
            /\ categories' = IF Truthy(r) THEN categories
                             ELSE [categories EXCEPT ![catIdx].books = <<>>]
    /\ pc' = "L60"
    /\ UNCHANGED <<cap, catIdx, book_count, books, bookIdx,
                   sessionOpen, result, saved, discovered>>
    /\ UNCHANGED <<recording, deep, collVars, parseVars>>

\* Mutant of GetNextPage: current_url stays at the category's first page
GetNextPage_StaleURL ==
    /\ pc = "L81"
    /\ check_next_page(html_content.doc) # NoLink /\ UnderCap
    /\ CanRequest
    /\ LET next_page == ResolveNext(current_url, check_next_page(html_content.doc))
       IN \E r \in ListingAnswers(next_page) :
            /\ requests' = Logged(next_page, r)
            /\ site' = Served(next_page, r)
            /\ current_url' = current_url
            /\ html_content' = r
    /\ pc' = "L60"
    /\ UNCHANGED <<cap, categories, catIdx, book_count, books, bookIdx,
                   sessionOpen, result, saved, discovered>>
    /\ UNCHANGED <<recording, deep, collVars, parseVars>>

\* main.py 81-90: a next page and room under the cap; fetch it
GetNextPage ==
    /\ pc = "L81"
    /\ check_next_page(html_content.doc) # NoLink /\ UnderCap
    /\ CanRequest
    /\ LET next_page == ResolveNext(current_url, check_next_page(html_content.doc))
       IN \E r \in ListingAnswers(next_page) :
            /\ requests' = Logged(next_page, r)
            /\ site' = Served(next_page, r)
            /\ current_url' = next_page
            /\ html_content' = r
    /\ pc' = "L60"
    /\ UNCHANGED <<cap, categories, catIdx, book_count, books, bookIdx,
                   sessionOpen, result, saved, discovered>>
    /\ UNCHANGED <<recording, deep, collVars, parseVars>>

\* main.py 91-94: no next page, or the cap is reached: break
NoNextPage ==
    /\ pc = "L81"
    /\ ~(check_next_page(html_content.doc) # NoLink /\ UnderCap)
    /\ catIdx' = catIdx + 1
    /\ pc' = "L49"
    /\ UNCHANGED <<cap, site, categories, html_content, current_url,
                   book_count, books, bookIdx, sessionOpen, result, saved,
                   requests, discovered>>
    /\ UNCHANGED <<recording, deep, collVars, parseVars>>

\* Mutant of CloseAndReturn: categories without books are left out
CloseAndReturn_DropEmpty ==
    /\ pc = "L96"
    /\ sessionOpen' = FALSE
    /\ result' = SelectSeq(categories, LAMBDA c : Len(c.books) > 0)
    /\ pc' = "returned"
    /\ UNCHANGED <<cap, site, categories, catIdx, html_content, current_url,
                   book_count, books, bookIdx, saved, requests, discovered>>
    /\ UNCHANGED <<recording, deep, collVars, parseVars>>

\* main.py 96-97: collector.close(); return categories
CloseAndReturn ==
    /\ pc = "L96"
    /\ sessionOpen' = FALSE
    /\ result' = categories
    /\ pc' = "returned"
    /\ UNCHANGED <<cap, site, categories, catIdx, html_content, current_url,
                   book_count, books, bookIdx, saved, requests, discovered>>
    /\ UNCHANGED <<recording, deep, collVars, parseVars>>

\* Mutant of MainSave: save_data is called whatever was returned
MainSave_Always ==
    /\ pc = "returned"
    /\ saved' = TRUE
    /\ pc' = "exit"
    /\ UNCHANGED <<cap, site, categories, catIdx, html_content, current_url,
                   book_count, books, bookIdx, sessionOpen, result, requests,
                   discovered>>
    /\ UNCHANGED <<recording, deep, collVars, parseVars>>

\* main.py 195-202: if categories: save_data(categories, file_handler)
MainSave ==
    /\ pc = "returned"
    /\ saved' = (Len(result) > 0)
    /\ pc' = "exit"
    /\ UNCHANGED <<cap, site, categories, catIdx, html_content, current_url,
                   book_count, books, bookIdx, sessionOpen, result, requests,
                   discovered>>
    /\ UNCHANGED <<recording, deep, collVars, parseVars>>

Next ==
    \/ GetHomepage
    \/ GetCategoryPage
    \/ CategoriesDone
    \/ WhileEnter
    \/ WhileExit
    \/ GetBookDetail
    \/ BooksDone
    \/ GetNextPage
    \/ NoNextPage
    \/ CloseAndReturn
    \/ MainSave

Spec == Init /\ [][Next]_vars

\* The same program on a site with deep and absolute next links
NavSpec == NavInit /\ [][Next]_vars

\* The interpreter always runs the next statement, and every fetch returns
FairSpec == FairInit /\ [][Next]_vars /\ WF_vars(Next)

\* ------------------------------------------------------------ WebCollector
\* The get calls made so far by the first k workers
RECURSIVE CallsUpTo(_)
CallsUpTo(k) == IF k = 0 THEN 0 ELSE ncalls[k] + CallsUpTo(k - 1)

\* collector.py 47-61: a caller enters get(url) and _respect_rate_limit
Get_Call(w) ==
    /\ w \in callers
    /\ wpc[w] = "idle"
    /\ CallsUpTo(NWorkers) < MaxCalls
    /\ \E u \in 1..MaxURL : req_url' = [req_url EXCEPT ![w] = u]
    /\ wpc' = [wpc EXCEPT ![w] = "L38"]
    /\ ncalls' = [ncalls EXCEPT ![w] = @ + 1]
    /\ ret' = [ret EXCEPT ![w] = "none"]
    /\ UNCHANGED <<now, last_request_time, current_time, wake, fate, dispatches,
                   completions, callers>>
    /\ UNCHANGED <<crawlVars, parseVars>>

\* collector.py 38: current_time = time.time()
RateLimit_ReadClock(w) ==
    /\ wpc[w] = "L38"
    /\ current_time' = [current_time EXCEPT ![w] = now]
    /\ wpc' = [wpc EXCEPT ![w] = "L39"]
    /\ UNCHANGED <<now, last_request_time, wake, fate, ret, ncalls, dispatches,
                   req_url, completions, callers>>
    /\ UNCHANGED <<crawlVars, parseVars>>

\* Mutant of sleep_time: the sleep is one tick short
sleep_time_Short(time_since_last) == RateLimit - time_since_last - 1

\* collector.py 42: sleep_time = self.rate_limit - time_since_last
sleep_time(time_since_last) == RateLimit - time_since_last

\* collector.py 39-43: time_since_last from the shared field; start to sleep when short
RateLimit_ReadLast(w) ==
    /\ wpc[w] = "L39"
    /\ LET time_since_last == current_time[w] - last_request_time
       IN IF time_since_last < RateLimit
          THEN /\ wake' = [wake EXCEPT ![w] = now + sleep_time(time_since_last)]
               /\ wpc' = [wpc EXCEPT ![w] = "L43"]
          ELSE /\ wpc' = [wpc EXCEPT ![w] = "L45"]
               /\ UNCHANGED wake
    /\ UNCHANGED <<now, last_request_time, current_time, fate, ret, ncalls,
                   dispatches, req_url, completions, callers>>
    /\ UNCHANGED <<crawlVars, parseVars>>

\* collector.py 43: time.sleep(sleep_time) returns once the time has passed
RateLimit_Wake(w) ==
    /\ wpc[w] = "L43"
    /\ now >= wake[w]
    /\ wpc' = [wpc EXCEPT ![w] = "L45"]
    /\ UNCHANGED <<now, last_request_time, current_time, wake, fate, ret, ncalls,
                   dispatches, req_url, completions, callers>>
    /\ UNCHANGED <<crawlVars, parseVars>>

\* What becomes of a request that was sent: a final response with a 2xx
\* status, with a 3xx status (304, or a redirect status without Location),
\* with a 4xx or 5xx status, a network error, a timeout raised by the
\* transport, or no answer at all
Fates == {"ok", "status3xx", "status", "neterr", "timeout", "hang"}

\* Mutant of RateLimit_WriteLast: the time of the request is not recorded
RateLimit_WriteLast_NotRecorded(w) ==
    /\ wpc[w] = "L45"
    /\ last_request_time' = last_request_time
    /\ dispatches' = Append(dispatches, [w |-> w, t |-> now, url |-> req_url[w]])
    /\ \E f \in Fates : fate' = [fate EXCEPT ![w] = f]
    /\ wpc' = [wpc EXCEPT ![w] = "L62"]
    /\ UNCHANGED <<now, current_time, wake, ret, ncalls, req_url, completions,
                   callers>>
    /\ UNCHANGED <<crawlVars, parseVars>>

\* collector.py 45, 62: last_request_time = time.time(); the request is sent
RateLimit_WriteLast(w) ==
    /\ wpc[w] = "L45"
    /\ last_request_time' = now
    /\ dispatches' = Append(dispatches, [w |-> w, t |-> now, url |-> req_url[w]])
    /\ \E f \in Fates : fate' = [fate EXCEPT ![w] = f]
    /\ wpc' = [wpc EXCEPT ![w] = "L62"]
    /\ UNCHANGED <<now, current_time, wake, ret, ncalls, req_url, completions,
                   callers>>
    /\ UNCHANGED <<crawlVars, parseVars>>

\* collector.py 62-68: session.get raises ConnectionError or Timeout, or
\* returns a response; raise_for_status raises HTTPError for a status in
\* 400..599 and for no other; the three are RequestExceptions and give None;
\* otherwise response.text is returned
GetResult(f) == IF f \in {"ok", "status3xx"} THEN "Body" ELSE "None"

\* collector.py 62-68: the answer arrives and get returns
Get_Return(w) ==
    /\ wpc[w] = "L62"
    /\ fate[w] # "hang"
    /\ ret' = [ret EXCEPT ![w] = GetResult(fate[w])]
    /\ completions' = <<[w |-> w, t |-> now, url |-> req_url[w],
                          fate |-> fate[w], res |-> GetResult(fate[w])]>>
    /\ fate' = [fate EXCEPT ![w] = "none"]
    /\ wpc' = [wpc EXCEPT ![w] = "idle"]
    /\ UNCHANGED <<now, last_request_time, current_time, wake, ncalls, dispatches,
                   req_url, callers>>
    /\ UNCHANGED <<crawlVars, parseVars>>

\* The clock advances
Tick ==
    /\ now < MaxTime
    /\ now' = now + 1
    /\ UNCHANGED <<last_request_time, wpc, current_time, wake, fate, ret, ncalls,
                   dispatches, req_url, completions, callers>>
    /\ UNCHANGED <<crawlVars, parseVars>>

CollNext ==
    \/ Tick
    \/ \E w \in Workers : Get_Call(w)
    \/ \E w \in Workers : RateLimit_ReadClock(w)
    \/ \E w \in Workers : RateLimit_ReadLast(w)
    \/ \E w \in Workers : RateLimit_Wake(w)
    \/ \E w \in Workers : RateLimit_WriteLast(w)
    \/ \E w \in Workers : Get_Return(w)

CollInitAll ==
    /\ CrawlInit /\ CollInit /\ ParseIdle
    /\ cap = NoCap /\ recording = TRUE /\ deep = FALSE

\* Workers calling get on one WebCollector, with no scheduling assumption
CollSpec == CollInitAll /\ [][CollNext]_vars

\* Every thread that can take a step eventually takes it
CollFairSpec ==
    /\ CollSpec
    /\ \A w \in Workers :
        /\ WF_vars(RateLimit_ReadClock(w))
        /\ WF_vars(RateLimit_ReadLast(w))
        /\ WF_vars(RateLimit_Wake(w))
        /\ WF_vars(RateLimit_WriteLast(w))
        /\ WF_vars(Get_Return(w))

\* One caller only: every get call is made after the one before it returned
SeqInit ==
    /\ CrawlInit /\ CollFields /\ callers = {1} /\ ParseIdle
    /\ cap = NoCap /\ recording = TRUE /\ deep = FALSE

SeqSpec == SeqInit /\ [][CollNext]_vars

\* ------------------------------------------------------- parser calls
\* The hrefs, class attributes, price texts and detail documents a page can
\* hold, and the books parse_book_details can be handed
Hrefs == {NoElement} \cup Texts({".", "/", "a", "http:"}, MaxHref)

ClassAttrs ==
    {NoElement} \cup
    Texts({"star-rating", "One", "Two", "Three", "Four", "Five", "one", "Six"},
          MaxClasses)

\* Any short text, alone or followed by one price or by two
PriceTexts ==
    {NoElement} \cup
    {t \o s : t \in Texts({"£", "1", "5", ".", "-"}, MaxText),
              s \in {<<>>, <<"£", "5", ".", "1">>,
                     <<"£", "1", ".", "5", "£", "5", ".", "1">>}}

RowsOf(n) ==
    UNION {[1..k -> {Row(th, td) : th \in {"UPC", " UPC ", "upc", "Price"},
                                   td \in {Unset, <<"td 1">>, <<"td 2">>}}] :
           k \in 0..n}

DetailInputs ==
    {[doc |-> [NoDoc EXCEPT !.desc = ds, !.rows = rs],
      book |-> [Book(<<1, 0, 1, 1>>, 1, 3, "In stock", 1, BookURL(1, 1, 1), <<"img">>)
                  EXCEPT !.upc = u, !.description = de]] :
        ds \in BOOLEAN, rs \in RowsOf(MaxRows),
        u \in {Unset, <<"old upc">>}, de \in {Unset, <<"old text">>}}

ParseInit ==
    /\ CrawlInit /\ CollInit
    /\ cap = NoCap /\ recording = TRUE /\ deep = FALSE
    /\ pout = <<>> /\ pdone = FALSE
    /\ \/ ptask = "url" /\ pin \in Hrefs
       \/ ptask = "rating" /\ pin \in ClassAttrs
       \/ ptask = "price" /\ pin \in PriceTexts
       \/ ptask = "details" /\ pin \in DetailInputs

\* parser.py 146-150: the url of the Book built for a listing item
Parse_BookURL ==
    /\ ptask = "url" /\ ~pdone
    /\ pout' = book_url(pin)
    /\ pdone' = TRUE
    /\ UNCHANGED <<ptask, pin, crawlVars, collVars>>

\* parser.py 158: rating = self._extract_rating(element)
Parse_Rating ==
    /\ ptask = "rating" /\ ~pdone
    /\ pout' = _extract_rating(pin)
    /\ pdone' = TRUE
    /\ UNCHANGED <<ptask, pin, crawlVars, collVars>>

\* parser.py 159: price = self._extract_price(element)
Parse_Price ==
    /\ ptask = "price" /\ ~pdone
    /\ pout' = _extract_price(pin)
    /\ pdone' = TRUE
    /\ UNCHANGED <<ptask, pin, crawlVars, collVars>>

\* main.py 75: book = parser.parse_book_details(book_html, book)
Parse_Details ==
    /\ ptask = "details" /\ ~pdone
    /\ pout' = parse_book_details(pin.doc, pin.book)
    /\ pdone' = TRUE
    /\ UNCHANGED <<ptask, pin, crawlVars, collVars>>

ParseNext == Parse_BookURL \/ Parse_Rating \/ Parse_Price \/ Parse_Details

\* One parser function applied to one input
ParseSpec == ParseInit /\ [][ParseNext]_vars

\* ============================================================= properties
Returned == pc \in {"returned", "exit"}

\* Every request made so far is in the record
LogComplete == recording

\* A book reduced to what the listing page gave
SummaryOf(b) == [b EXCEPT !.upc = Unset, !.description = Unset]
Summaries(bs) == [k \in DOMAIN bs |-> SummaryOf(bs[k])]

IsPrefix(a, b) == Len(a) <= Len(b) /\ \A k \in DOMAIN a : a[k] = b[k]

Min(a, b) == IF a <= b THEN a ELSE b

\* The logged detail requests of category c, in the order they were made
DetailLog(c) == SelectSeq(requests, LAMBDA e : e.url.kind = "book" /\ e.url.c = c)

\* The index of the last listing request made before request k; 0 when none
LastListing(k) ==
    LET js == {j \in 1..(k - 1) : requests[j].url.kind = "list"}
    IN IF js = {} THEN 0 ELSE CHOOSE j \in js : \A i \in js : i <= j

\* ------------------------------------------------------------------- C1
\* C1: without a cap, when scrape_all_books has returned, every category's
\* book list is, summary for summary, the concatenation of the summaries
\* parsed from its listing pages in the order the pages were fetched,
\* whichever detail fetches failed.
C1_FinalListIsConcatenation ==
    (Returned /\ cap = NoCap) =>
        \A c \in DOMAIN result : Summaries(result[c].books) = discovered[c]

\* A returned run without cap whose first category took a book from each of
\* two pages, the first detail fetch failed and the second successful
C1_Witness ==
    /\ Returned /\ cap = NoCap /\ Len(result) >= 1
    /\ Len(result[1].books) = 2
    /\ result[1].books[1].url = BookURL(1, 1, 1)
    /\ result[1].books[2].url = BookURL(1, 2, 1)
    /\ result[1].books[1].description = Unset
    /\ result[1].books[2].description # Unset

\* ------------------------------------------------------------------- C3
\* C3: every logged detail request has its book in the category's list, at
\* the same position; when the request did not return a body the book is the
\* summary as parsed, upc and description unset; every book keeps its summary
\* fields, and a book with upc or description set had a detail request that
\* returned a body.
C3_DetailFailureKeepsSummary ==
    \A c \in DOMAIN categories :
        LET bs == categories[c].books
            dl == DetailLog(c)
        IN /\ \A k \in DOMAIN dl :
                /\ k <= Len(bs)
                /\ k <= Len(discovered[c])
                /\ dl[k].url = bs[k].url
                /\ dl[k].res # "Body" => bs[k] = discovered[c][k]
           /\ \A k \in DOMAIN bs :
                /\ k <= Len(discovered[c])
                /\ SummaryOf(bs[k]) = discovered[c][k]
                /\ LogComplete => k <= Len(dl)
                /\ (bs[k].upc # Unset \/ bs[k].description # Unset) =>
                       (k <= Len(dl) => dl[k].res = "Body")

\* A failed detail fetch followed by a successful one, both books kept
C3_Witness ==
    /\ Len(categories) >= 1
    /\ Len(DetailLog(1)) = 2
    /\ DetailLog(1)[1].res = "None"
    /\ DetailLog(1)[2].res = "Body"
    /\ Len(categories[1].books) = 2
    /\ categories[1].books[1] = discovered[1][1]
    /\ categories[1].books[2].description # Unset

\* ------------------------------------------------------------------- C4
\* C4: after a failed listing request for a category no further request is
\* made for that category or an earlier one, the request that follows it is
\* for the first listing page of the next category, and when the loop over
\* the categories is over every category has had its first listing page
\* requested.
C4_ListingFailureSkipsCategory ==
    /\ \A k \in DOMAIN requests :
          (requests[k].url.kind = "list" /\ requests[k].res = "None") =>
              /\ \A j \in DOMAIN requests : j > k => requests[j].url.c > requests[k].url.c
              /\ k < Len(requests) =>
                    /\ requests[k].url.c < Len(categories)
                    /\ requests[k + 1].url = categories[requests[k].url.c + 1].url
    /\ (pc \in {"L96", "returned", "exit"} /\ LogComplete) =>
          \A c \in DOMAIN categories :
              \E k \in DOMAIN requests : requests[k].url = categories[c].url

\* The first category's listing failed; the second was crawled and has a book
C4_Witness ==
    /\ pc = "exit"
    /\ Len(result) = 2
    /\ Len(requests) >= 3
    /\ requests[2].url = ListURL(1, 1) /\ requests[2].res = "None"
    /\ requests[3].url = ListURL(2, 1) /\ requests[3].res = "Body"
    /\ Len(result[2].books) >= 1

\* ------------------------------------------------------------------- C5
\* C5: scrape_all_books eventually returns (or the run outgrows the model's
\* bound on appended books), whatever the site, the failures and the cap.
C5_EventuallyReturns == <>(Returned \/ TotalBooks(categories) >= MaxBooks)

\* ------------------------------------------------------------------- C6
\* C6: no URL is requested twice in a run, and every category has as many
\* detail requests as books appended.
C6_EachUnitRequestedOnce ==
    /\ \A j, k \in DOMAIN requests : j # k => requests[j].url # requests[k].url
    /\ LogComplete =>
          \A c \in DOMAIN categories : Len(DetailLog(c)) = Len(categories[c].books)

\* ------------------------------------------------------------------- C7
\* C7: with a cap N, a category never holds more than N books, its list is
\* always a prefix of the summaries discovered for it, and once the crawl of
\* the category is over the list is the first min(N, discovered) of them.
C7_CapPrefix ==
    cap # NoCap =>
        \A c \in DOMAIN categories :
            /\ Len(categories[c].books) <= cap
            /\ IsPrefix(Summaries(categories[c].books), discovered[c])
            /\ c < catIdx =>
                  Len(categories[c].books) = Min(cap, Len(discovered[c]))

\* A cap of 2 cut the second page of the first category after its first book
C7_Witness ==
    /\ cap = 2 /\ Returned /\ Len(result) >= 1
    /\ Len(discovered[1]) = 3
    /\ Len(result[1].books) = 2
    /\ result[1].books[2].url = BookURL(1, 2, 1)

\* ------------------------------------------------------------------- C8
\* C8: whenever scrape_all_books has returned, its collector is closed.
C8_ClosedOnEveryExit == Returned => ~sessionOpen

\* ------------------------------------------------------------------ C10
\* C10: when the homepage request failed, scrape_all_books returns the empty
\* list, the homepage request stays the only request, and main does not call
\* save_data.
C10_HomepageFailure ==
    (Returned /\ requests[1].res = "None") =>
        /\ result = <<>>
        /\ Len(requests) = 1
        /\ ~saved

\* main has passed its "if categories" after a failed homepage fetch
C10_Witness == pc = "exit" /\ requests[1].res = "None"

\* ------------------------------------------------------------------ C11
\* C11: the categories held, and returned, are the homepage's links in
\* document order (the k-th entry is the k-th link), and the requests are
\* made category by category in that order: the first listing pages are
\* requested in link order and no request goes back to an earlier category,
\* whichever listing requests failed and however many books were found.
C11_HomepageOrderKept ==
    /\ \A k \in DOMAIN categories :
          categories[k].name = k /\ categories[k].url = ListURL(k, 1)
    /\ \A k \in DOMAIN result :
          result[k].name = k /\ result[k].url = ListURL(k, 1)
    /\ \A j, k \in DOMAIN requests :
          j < k => requests[j].url.c <= requests[k].url.c
    /\ \A k \in DOMAIN requests :
          k > 1 => /\ requests[k].url.c \in DOMAIN categories
                   /\ requests[k].url.c <= catIdx

\* Two categories returned in link order: the first gave a book, the
\* listing of the second failed
C11_Witness ==
    /\ Returned /\ Len(result) = 2
    /\ Len(requests) = 4
    /\ requests[2].url = ListURL(1, 1) /\ requests[2].res = "Body"
    /\ requests[4].url = ListURL(2, 1) /\ requests[4].res = "None"
    /\ Len(result[1].books) = 1 /\ Len(result[2].books) = 0
    /\ result[1].name = 1 /\ result[2].name = 2

\* ------------------------------------------------------------------ C12
\* C12 (as stated): when a caller is about to send a request, at least
\* rate_limit has passed since the previous request of the instance
\* completed.
C12_SpacedFromCompletion ==
    \A w \in Workers :
        (wpc[w] = "L45" /\ completions # <<>>) =>
            now - completions[1].t >= RateLimit

\* C12 (amended): when a single caller is about to send a request, at least
\* rate_limit has passed since last_request_time, the time recorded just
\* before the previous request was sent.
C12_SpacedFromIssue ==
    \A w \in Workers :
        wpc[w] = "L45" => now - last_request_time >= RateLimit

\* The caller is about to send its second request: rate_limit has passed
\* since the first was sent, less than rate_limit since it completed
C12_Witness ==
    /\ wpc[1] = "L45"
    /\ Len(dispatches) = 1
    /\ completions # <<>>
    /\ now - dispatches[1].t >= RateLimit
    /\ now - completions[1].t < RateLimit

\* ------------------------------------------------------------------ C13
\* C13: every get call that has returned gave a body or None; it gave None
\* for a network error, a timeout and every status outside 2xx, and a body
\* only for a 2xx response.
C13_BodyOnlyFor2xx ==
    \A k \in DOMAIN completions :
        /\ completions[k].res \in {"Body", "None"}
        /\ completions[k].res = "Body" <=> completions[k].fate = "ok"

\* ------------------------------------------------------------------ C20
\* C20: with a single caller, each request is dispatched at least
\* rate_limit after the one before it, whatever the two URLs are and
\* whether or not the earlier request failed.
C20_ConsecutiveDispatchesSpaced ==
    \A k \in DOMAIN dispatches :
        k > 1 => dispatches[k].t - dispatches[k - 1].t >= RateLimit

\* The first request failed; the second, for another URL, was sent after a
\* sleep, rate_limit after the first
C20_Witness ==
    /\ Len(dispatches) = 2
    /\ wpc[1] = "L62"
    /\ completions # <<>> /\ completions[1].res = "None"
    /\ completions[1].url = dispatches[1].url
    /\ dispatches[2].url # dispatches[1].url
    /\ wake[1] > 0
    /\ dispatches[2].t - dispatches[1].t = RateLimit

\* ------------------------------------------------------------------ C15
\* URL u with its last path segment replaced by the relative path of link l
ReplaceLastSegment(u, l) == [u EXCEPT !.d = @ + l.d, !.p = l.p]

\* C15: every listing request that follows a listing request of the same
\* category is the request for the next page of the page that request
\* returned: it goes to that page's own URL with the last segment replaced
\* by the page's relative next link, or to the URL that an absolute next
\* link spells out; and while a page is being processed current_url is the
\* URL it was requested from.
C15_NextResolvedAgainstCurrentPage ==
    /\ \A k \in DOMAIN requests :
          LET j == LastListing(k)
          IN (/\ requests[k].url.kind = "list"
              /\ j > 0
              /\ requests[j].url.c = requests[k].url.c) =>
                 /\ requests[j].url \in DOMAIN site
                 /\ LET u == requests[j].url
                        l == site[u].next
                    IN /\ l # NoLink
                       /\ l.form = "rel" => requests[k].url = ReplaceLastSegment(u, l)
                       /\ l.form = "abs" =>
                             /\ requests[k].url.c = l.c
                             /\ requests[k].url.d = l.d
                             /\ requests[k].url.p = l.p
    /\ pc \in {"L60", "L66", "L81"} =>
          /\ current_url = requests[LastListing(Len(requests) + 1)].url
          /\ Truthy(html_content) => html_content.doc = site[current_url]

\* From the first page a link led one directory down; the page there
\* carried a plain file link, requested in that directory, and the page
\* after it an absolute link back to the category's directory
C15_Witness ==
    /\ Len(requests) = 5
    /\ \A k \in 2..4 : requests[k].res = "Body" /\ requests[k].url \in DOMAIN site
    /\ requests[2].url = ListURLAt(1, 0, 1)
    /\ site[ListURLAt(1, 0, 1)].next = RelLink(1, 2)
    /\ requests[3].url = ListURLAt(1, 1, 2)
    /\ site[ListURLAt(1, 1, 2)].next = RelLink(0, 1)
    /\ requests[4].url = ListURLAt(1, 1, 1)
    /\ site[ListURLAt(1, 1, 1)].next = AbsLink(1, 0, 2)
    /\ requests[5].url = ListURLAt(1, 0, 2)

\* ------------------------------------------------------------------ C16
\* C16: get returns before the next statement runs, so the record of
\* requests is the order of issue and of completion. No request for a
\* category follows a request for a later one; every detail request
\* belongs to the listing page requested last before it and is the i-th
\* request after it for the page's i-th book; and when a further listing
\* page of the same category is requested, every book of the page before it
\* has had its detail request.
C16_HierarchyOrder ==
    \A k \in DOMAIN requests :
        LET j == LastListing(k)
        IN /\ \A i \in 1..(k - 1) : requests[i].url.c <= requests[k].url.c
           /\ requests[k].url.kind = "book" =>
                 /\ j > 0
                 /\ requests[j].res = "Body"
                 /\ requests[j].url = ListURL(requests[k].url.c, requests[k].url.p)
                 /\ requests[k].url.i = k - j
           /\ (requests[k].url.kind = "list" /\ j > 0) =>
                 (requests[j].url.c = requests[k].url.c =>
                     /\ requests[j].res = "Body"
                     /\ requests[j].url \in DOMAIN site
                     /\ k - j - 1 = site[requests[j].url].n)

\* The second page of a category is requested after both detail requests
\* for the two books of its first page
C16_Witness ==
    /\ Len(requests) = 5
    /\ requests[2].url = ListURL(1, 1)
    /\ requests[3].url = BookURL(1, 1, 1)
    /\ requests[4].url = BookURL(1, 1, 2)
    /\ requests[5].url = ListURL(1, 2)

\* ------------------------------------------------------------------ C14
\* C14: whatever href the listing item has (missing, empty, relative with or
\* without leading '../' segments, absolute), the Book's url is not empty
\* and starts with the base URL and the catalogue path.
C14_BookUrlAbsolute ==
    (ptask = "url" /\ pdone) =>
        /\ pout # <<>>
        /\ IsPrefix(CataloguePrefix, pout)

\* ------------------------------------------------------------------ C17
\* C17: parse_book_details returns the book with title, price, rating,
\* availability, category, url and image_url as they were; upc as it was
\* when no row of the table has the header text 'UPC' (surrounding
\* whitespace aside), and description as it was when the document has no
\* description paragraph.
C17_DetailsFrame ==
    (ptask = "details" /\ pdone) =>
        LET doc == pin.doc
            book == pin.book
        IN /\ SummaryOf(pout) = SummaryOf(book)
           /\ DOMAIN pout = DOMAIN book
           /\ (\A k \in DOMAIN doc.rows : Strip(doc.rows[k].th) # "UPC") =>
                 pout.upc = book.upc
           /\ ~doc.desc => pout.description = book.description

\* A document without description whose table has rows, none of them
\* headed 'UPC', left a book that had both fields set as it was
C17_Witness ==
    /\ ptask = "details" /\ pdone
    /\ ~pin.doc.desc
    /\ Len(pin.doc.rows) = 2
    /\ pin.doc.rows[1].th = "upc" /\ pin.doc.rows[1].td # Unset
    /\ pin.doc.rows[2].th = "Price"
    /\ pin.book.upc # Unset /\ pin.book.description # Unset
    /\ pout = pin.book

\* ------------------------------------------------------------------ C18
\* The class names that stand for a rating, in the order of their values
RatingWords == <<"One", "Two", "Three", "Four", "Five">>

PriceMatches(text) ==
    {t \in (DOMAIN text) \X (DOMAIN text) \X (DOMAIN text) :
        /\ text[t[1]] = "£"
        /\ t[1] < t[2] /\ t[2] + 1 < t[3]
        /\ \A x \in (t[1] + 1)..t[2] : text[x] \in Digits
        /\ text[t[2] + 1] = "."
        /\ \A x \in (t[2] + 2)..t[3] : text[x] \in Digits}

\* C19: _extract_price returns a price that is not negative; 0.0 when there
\* is no p.price_color or its text has no pound sign followed by digits, a
\* point and digits; otherwise the number written by the leftmost such
\* match, taken with all the digits that follow its point.
C19_PriceValue ==
    (ptask = "price" /\ pdone) =>
        LET ms == IF pin = NoElement THEN {} ELSE PriceMatches(pin)
        IN /\ pout[1] >= 0 /\ pout[2] > 0
           /\ ms = {} => pout = Zero
           /\ ms # {} =>
                 \E t \in ms :
                    /\ \A s \in ms : t[1] <= s[1] /\ (s[1] = t[1] => s[3] <= t[3])
                    /\ pout = float(SubSeq(pin, t[1] + 1, t[2]),
                                    SubSeq(pin, t[2] + 2, t[3]))

\* The text holds a sign, a broken price and two prices; the first whole
\* price, 1.5, is returned
C19_Witness ==
    /\ ptask = "price" /\ pdone
    /\ pin = <<"-", "£", ".", "£", "1", ".", "5", "£", "5", ".", "1">>
    /\ pout = <<15, 10>>

\* ------------------------------------------------------------------ C21
\* The detail requests made for category c before request k: the
\* category's book count when request k was issued
CountBefore(c, k) ==
    Cardinality({j \in 1..(k - 1) :
                    requests[j].url.kind = "book" /\ requests[j].url.c = c})

\* C21: with a cap, every listing or detail request for a category is
\* issued while the category's book count is below the cap, a cap of 0
\* included.
C21_RequestsOnlyUnderCap ==
    cap # NoCap =>
        \A k \in DOMAIN requests :
            k > 1 => CountBefore(requests[k].url.c, k) < cap

\* ------------------------------------------------------------------ C22
\* C22: when the request for a further listing page of a category (one
\* that follows a listing request of the same category) has failed, then
\* from there on, and in the result, the category's list holds exactly the
\* books of the pages fetched before it, in order, each as its detail
\* request left it: one book per detail request made for the category,
\* all of them made before the failed request.
C22_LaterPageFailureKeepsBooks ==
    \A k \in DOMAIN requests :
        LET j == LastListing(k)
            c == requests[k].url.c
        IN (/\ requests[k].url.kind = "list" /\ requests[k].res = "None"
            /\ j > 0 /\ requests[j].url.c = c) =>
              /\ c \in DOMAIN categories
              /\ Summaries(categories[c].books) = discovered[c]
              /\ Len(categories[c].books) = CountBefore(c, k)
              /\ Len(DetailLog(c)) = CountBefore(c, k)
              /\ \A i \in DOMAIN categories[c].books :
                    /\ i <= Len(DetailLog(c))
                    /\ categories[c].books[i].url = DetailLog(c)[i].url
              /\ Returned =>
                    /\ c \in DOMAIN result
                    /\ result[c].books = categories[c].books

\* The second page of the first category failed after the first page gave
\* a book with its details; the book is in the result
C22_Witness ==
    /\ Returned /\ Len(result) >= 1
    /\ Len(requests) = 4
    /\ requests[2].url = ListURL(1, 1)
    /\ requests[3].url = BookURL(1, 1, 1) /\ requests[3].res = "Body"
    /\ requests[4].url = ListURL(1, 2) /\ requests[4].res = "None"
    /\ Len(result[1].books) = 1
    /\ result[1].books[1].url = BookURL(1, 1, 1)
    /\ result[1].books[1].description # Unset

\* ------------------------------------------------------------------ C23
\* C23: scrape_all_books handles a fetch as failed exactly when get
\* returned None; a 2xx response is handled as a success whatever its body,
\* the empty one included.
C23_FailureOnlyOnNone ==
    \A k \in DOMAIN requests :
        requests[k].failed <=> requests[k].res = "None"

\* ------------------------------------------------------------------ C24
\* C24: when the homepage was fetched, the result returned has one entry
\* for each category link of the homepage and no other: as many entries as
\* links, no name twice, every entry with the books appended for it; a
\* category whose first listing request failed is among them, with no books.
C24_ResultIsParsedCategories ==
    (Returned /\ HomeURL \in DOMAIN site) =>
        /\ Len(result) = site[HomeURL].ncat
        /\ \A j, k \in DOMAIN result : j # k => result[j].name # result[k].name
        /\ \A k \in DOMAIN result :
              /\ result[k].name \in 1..site[HomeURL].ncat
              /\ Summaries(result[k].books) =
                    SubSeq(discovered[k], 1, Len(result[k].books))
        /\ \A k \in DOMAIN requests :
              (/\ requests[k].url.kind = "list" /\ requests[k].failed
               /\ requests[k].url = ListURL(requests[k].url.c, 1)
               /\ (LastListing(k) > 0 =>
                      requests[LastListing(k)].url.c # requests[k].url.c)) =>
                  /\ requests[k].url.c \in DOMAIN result
                  /\ result[requests[k].url.c].books = <<>>

\* Of two categories on the homepage the first could not be listed and the
\* second gave one book whose detail fetch failed: two entries are returned
C24_Witness ==
    /\ Returned
    /\ HomeURL \in DOMAIN site /\ site[HomeURL].ncat = 2
    /\ Len(requests) = 4
    /\ requests[2].res = "None"
    /\ requests[4].url = BookURL(2, 1, 1) /\ requests[4].res = "None"
    /\ Len(result) = 2
    /\ result[1].books = <<>>
    /\ Len(result[2].books) = 1

\* ------------------------------------------------------------------- C2
\* C2: any two requests of one collector are dispatched at least rate_limit
\* apart, however its callers interleave.
C2_DispatchesSpaced ==
    \A j, k \in DOMAIN dispatches :
        j < k => dispatches[k].t - dispatches[j].t >= RateLimit

\* ------------------------------------------------------------------- C9
\* C9: a request that was sent leads to get returning, also when the server
\* never answers.
C9_GetReturns == \A w \in Workers : (wpc[w] = "L62") ~> (wpc[w] = "idle")

====
